---- MODULE Spec2Model ----
(***************************************************************************)
(* LogWriter of snorkel/classification/training/loggers/log_writer.py.     *)
(*                                                                         *)
(* Representation.  A Python str is a sequence of non-empty chunks; the    *)
(* path separator "/" and the extension ".json" are chunks of their own,   *)
(* so "logs/run" is <<"logs", "/", "run">> and "log.json" is               *)
(* <<"log", ".json">>.  The empty str is <<>>.  None is the sequence       *)
(* <<"">>, which is no str because its chunk is empty.  The content of a   *)
(* file is a str.  A JSON-compatible value is a tagged record (JNum, JStr, *)
(* JList, JObj, JNull); a dict keeps its keys in insertion order, so it is *)
(* a sequence of <<key, value>> pairs.                                     *)
(***************************************************************************)
EXTENDS Integers, Sequences, FiniteSets, TLC

VARIABLES
    pc,         \* "new" before __init__, "ready" after it, "failed" if it raised
    clock,      \* the wall clock, in seconds since 2019-12-30 00:00:00
    disk,       \* the file system: path (sequence of components) -> entry
    config,     \* self.config
    run_name,   \* self.run_name
    log_dir,    \* self.log_dir
    run_log,    \* self.run_log, a dict in insertion order
    calls,      \* history: the add_scalar calls made on the instance, in order
    sent,       \* history: path -> what the last write call to it ended with
    last,       \* history: the last call made, its arguments and its outcome
    built,      \* history: the instances constructed so far, in order
    nops,       \* number of calls made on the instance (bounded by MaxOps)
    faults      \* number of injected I/O errors (bounded by MaxFaults)

vars == <<pc, clock, disk, config, run_name, log_dir, run_log, calls, sent,
          last, built, nops, faults>>

(***************************************************************************)
(* Bounds of the model.                                                    *)
(***************************************************************************)
MaxOps == 3         \* calls on one instance after its construction
MaxScalars == 2     \* add_scalar calls on one instance
MaxFaults == 1      \* injected I/O errors per behaviour
MaxDelay == 1       \* seconds the clock may advance before each clock read
MaxInstances == 2   \* instances constructed one after the other (SpecTwo)

(***************************************************************************)
(* Python values.                                                          *)
(***************************************************************************)
None == <<"">>
EmptyStr == <<>>
SEP == "/"
JSON_EXT == ".json"

\* bool(v) of a value that is None or a str
Truthy(v) == v # None /\ v # EmptyStr

\* v or w
Or(v, w) == IF Truthy(v) THEN v ELSE w

\* s.endswith(suffix), for a suffix that is one chunk
EndsWith(s, suffix) == Len(s) > 0 /\ s[Len(s)] = suffix

\* os.path.join(a, b) of posixpath
PathJoin(a, b) ==
    IF Len(b) > 0 /\ b[1] = SEP THEN b
    ELSE IF Len(a) = 0 \/ a[Len(a)] = SEP THEN a \o b
    ELSE a \o <<SEP>> \o b

(***************************************************************************)
(* The file system.  A path str resolves to the sequence of its non-empty  *)
(* components (relative to the working directory, or behind a leading "/"  *)
(* component when absolute).  disk maps every existing resolved path to    *)
(* [kind |-> "dir" | "file", data |-> content, torn |-> BOOLEAN].  A torn  *)
(* file is what an interrupted write left: it holds some strict prefix of  *)
(* data, and which one is not determined.  LogWriter never reads a file.   *)
(***************************************************************************)
RECURSIVE SplitFrom(_, _, _)
SplitFrom(p, i, cur) ==
    LET done == IF cur = "" THEN <<>> ELSE <<cur>>
    IN  IF i > Len(p) THEN done
        ELSE IF p[i] = SEP THEN done \o SplitFrom(p, i + 1, "")
        ELSE SplitFrom(p, i + 1, cur \o p[i])

Resolve(p) ==
    (IF Len(p) > 0 /\ p[1] = SEP THEN <<SEP>> ELSE <<>>) \o SplitFrom(p, 1, "")

Front(s) == SubSeq(s, 1, Len(s) - 1)

DirEntry == [kind |-> "dir", data |-> <<>>, torn |-> FALSE]
FileEntry(data) == [kind |-> "file", data |-> data, torn |-> FALSE]
TornEntry(data) == [kind |-> "file", data |-> data, torn |-> TRUE]

IsDirAt(fs, r) == r = <<>> \/ r = <<SEP>> \/ (r \in DOMAIN fs /\ fs[r].kind = "dir")
IsFileAt(fs, r) == r \in DOMAIN fs /\ fs[r].kind = "file"

\* the path names a directory
IsDir(fs, p) == IsDirAt(fs, Resolve(p))

\* os.path.exists(p): a trailing separator asks for a directory
Exists(fs, p) ==
    LET r == Resolve(p)
    IN  IsDirAt(fs, r) \/ (IsFileAt(fs, r) /\ ~EndsWith(p, SEP))

Put(fs, r, e) == [q \in DOMAIN fs \cup {r} |-> IF q = r THEN e ELSE fs[q]]

\* os.makedirs(p), exist_ok=False: every missing ancestor is created; raises
\* when an ancestor is a file or the leaf exists already.
Makedirs(fs, p) ==
    LET r == Resolve(p)
        pre == {SubSeq(r, 1, k) : k \in 1..Len(r)}
        bad == (\E q \in pre : IsFileAt(fs, q)) \/ IsDirAt(fs, r)
    IN  IF bad THEN [raised |-> TRUE, fs |-> fs]
        ELSE [raised |-> FALSE,
              fs |-> [q \in DOMAIN fs \cup pre |->
                         IF q \in DOMAIN fs THEN fs[q] ELSE DirEntry]]

(***************************************************************************)
(* with open(path, "w") as f: f.write(data).  fault says where the         *)
(* operating system fails the call, if it does: "open" (permission         *)
(* denied, ...) leaves the disk as it is; "write" (disk full, ...) leaves  *)
(* the file truncated and torn.  open fails by itself when the parent is   *)
(* no directory or the path is one.  opens counts the calls of open.       *)
(***************************************************************************)
OpenWrite(fs, path, data, fault) ==
    LET r == Resolve(path)
        cannot == \/ r = <<>> \/ EndsWith(path, SEP)
                  \/ ~IsDirAt(fs, Front(r))
                  \/ IsDirAt(fs, r)
    IN  IF cannot \/ fault = "open"
        THEN [raised |-> TRUE, fs |-> fs, opens |-> 1]
        ELSE IF fault = "write"
        THEN [raised |-> TRUE, opens |-> 1, fs |-> Put(fs, r, TornEntry(data))]
        ELSE [raised |-> FALSE, opens |-> 1, fs |-> Put(fs, r, FileEntry(data))]

(***************************************************************************)
(* The clock and strftime.  The calendar covers the days around the turn   *)
(* of the year 2019/2020: day 0 is 2019-12-30.                             *)
(***************************************************************************)
SecondsPerDay == 24 * 60 * 60

Calendar(day) ==
    IF day <= 1 THEN <<2019, 12, 30 + day>> ELSE <<2020, 1, day - 1>>

Pad2(n) == IF n < 10 THEN "0" \o ToString(n) ELSE ToString(n)

\* datetime(t).strftime("%Y_%m_%d")
StrfDate(t) ==
    LET c == Calendar(t \div SecondsPerDay)
    IN  ToString(c[1]) \o "_" \o Pad2(c[2]) \o "_" \o Pad2(c[3])

\* datetime(t).strftime("%H_%M_%S")
StrfTime(t) ==
    LET s == t % SecondsPerDay
    IN  Pad2(s \div (60 * 60)) \o "_" \o Pad2((s \div 60) % 60) \o "_" \o Pad2(s % 60)

(***************************************************************************)
(* JSON-compatible values, json.dump and (for reading the files back)      *)
(* json.load.                                                              *)
(***************************************************************************)
JNull == [t |-> "null", n |-> 0, s |-> "", v |-> <<>>]
JNum(n) == [t |-> "num", n |-> n, s |-> "", v |-> <<>>]
JStr(s) == [t |-> "str", n |-> 0, s |-> s, v |-> <<>>]
JList(items) == [t |-> "list", n |-> 0, s |-> "", v |-> items]
\* items: a sequence of [key |-> string, val |-> value], in insertion order
JObj(items) == [t |-> "obj", n |-> 0, s |-> "", v |-> items]

QUOTE == "\""
ITEM_SEP == ", "
KEY_SEP == ": "

\* json.dump(j, f) with the default separators: the text written to f
RECURSIVE Dumps(_), DumpItems(_), DumpMembers(_)
Dumps(j) ==
    CASE j.t = "num" -> <<ToString(j.n)>>
      [] j.t = "str" -> <<QUOTE, j.s, QUOTE>>
      [] j.t = "list" -> <<"[">> \o DumpItems(j.v) \o <<"]">>
      [] j.t = "obj" -> <<"{">> \o DumpMembers(j.v) \o <<"}">>
      [] OTHER -> <<"null">>

DumpItems(v) ==
    IF Len(v) = 0 THEN <<>>
    ELSE Dumps(v[1]) \o (IF Len(v) > 1 THEN <<ITEM_SEP>> \o DumpItems(Tail(v)) ELSE <<>>)

DumpMembers(v) ==
    IF Len(v) = 0 THEN <<>>
    ELSE <<QUOTE, v[1].key, QUOTE, KEY_SEP>> \o Dumps(v[1].val)
         \o (IF Len(v) > 1 THEN <<ITEM_SEP>> \o DumpMembers(Tail(v)) ELSE <<>>)

\* the numbers json.load recognises in the model
NumRange == -99..99

IsNumTok(tok) == \E n \in NumRange : ToString(n) = tok
NumOf(tok) == CHOOSE n \in NumRange : ToString(n) = tok

ParseFail == [ok |-> FALSE, val |-> JNull, next |-> 0]
Parsed(val, next) == [ok |-> TRUE, val |-> val, next |-> next]

\* json.load: a recursive-descent parser over the text d, from position i
RECURSIVE ParseValue(_, _), ParseItems(_, _, _), ParseMembers(_, _, _)
ParseValue(d, i) ==
    IF i > Len(d) THEN ParseFail
    ELSE IF d[i] = "{" THEN ParseMembers(d, i + 1, <<>>)
    ELSE IF d[i] = "[" THEN ParseItems(d, i + 1, <<>>)
    ELSE IF d[i] = "null" THEN Parsed(JNull, i + 1)
    ELSE IF d[i] = QUOTE
    THEN IF i + 2 <= Len(d) /\ d[i + 2] = QUOTE
         THEN Parsed(JStr(d[i + 1]), i + 3) ELSE ParseFail
    ELSE IF IsNumTok(d[i]) THEN Parsed(JNum(NumOf(d[i])), i + 1)
    ELSE ParseFail

ParseItems(d, i, acc) ==
    IF i > Len(d) THEN ParseFail
    ELSE IF Len(acc) = 0 /\ d[i] = "]" THEN Parsed(JList(acc), i + 1)
    ELSE LET r == ParseValue(d, i)
         IN  IF ~r.ok \/ r.next > Len(d) THEN ParseFail
             ELSE IF d[r.next] = ITEM_SEP
             THEN ParseItems(d, r.next + 1, Append(acc, r.val))
             ELSE IF d[r.next] = "]"
             THEN Parsed(JList(Append(acc, r.val)), r.next + 1)
             ELSE ParseFail

ParseMembers(d, i, acc) ==
    IF i > Len(d) THEN ParseFail
    ELSE IF Len(acc) = 0 /\ d[i] = "}" THEN Parsed(JObj(acc), i + 1)
    ELSE IF ~(i + 3 <= Len(d) /\ d[i] = QUOTE /\ d[i + 2] = QUOTE /\ d[i + 3] = KEY_SEP)
    THEN ParseFail
    ELSE LET r == ParseValue(d, i + 4)
             m == [key |-> d[i + 1], val |-> r.val]
         IN  IF ~r.ok \/ r.next > Len(d) THEN ParseFail
             ELSE IF d[r.next] = ITEM_SEP
             THEN ParseMembers(d, r.next + 1, Append(acc, m))
             ELSE IF d[r.next] = "}"
             THEN Parsed(JObj(Append(acc, m)), r.next + 1)
             ELSE ParseFail

JError == [t |-> "error", n |-> 0, s |-> "", v |-> <<>>]

Loads(d) ==
    LET r == ParseValue(d, 1)
    IN  IF r.ok /\ r.next = Len(d) + 1 THEN r.val ELSE JError

(***************************************************************************)
(* Inputs of the calls.                                                    *)
(***************************************************************************)
Names == {"loss", "acc"}
Steps == {1, 2}
Values == {-7}
CONFIG_FILENAME == <<"config", JSON_EXT>>
Filenames == {<<"log", JSON_EXT>>, <<"notes", ".txt">>}
Texts == {<<"hello", " ", "world">>}
Configs == {JObj(<<[key |-> "epochs", val |-> JNum(5)]>>)}
JsonValues == {JObj(<<[key |-> "tag", val |-> JStr("dev")]>>)}
KwargsSet ==
    { [k \in {} |-> None],
      [k \in {"run_name"} |-> EmptyStr],
      [k \in {"run_name"} |-> <<"run">>] }

\* default_config["log_writer_config"]
default_config == [k \in {"log_dir", "run_name"} |-> IF k = "log_dir" THEN <<"logs">> ELSE None]

\* recursive_merge_dicts(x, y): x with the values y gives for x's keys
recursive_merge_dicts(x, y) == [k \in DOMAIN x |-> IF k \in DOMAIN y THEN y[k] ELSE x[k]]

\* the clock when the model starts: 2019-12-31 23:59:59
StartClock == 2 * SecondsPerDay - 1

\* what the disk may hold before the first instance is constructed
OldText == <<"old", " ", "text", "\n", "kept">>
DiskInits ==
    LET logs == <<"logs">>
        run == <<"logs", "run">>
        notes == <<"logs", "run", "notes.txt">>
    IN  { [r \in {} |-> DirEntry],
          [r \in {logs, run, notes} |-> IF r = notes THEN FileEntry(OldText) ELSE DirEntry],
          [r \in {logs, run} |-> IF r = run THEN FileEntry(OldText) ELSE DirEntry] }

Files(fs) == {r \in DOMAIN fs : fs[r].kind = "file"}

\* the content of a file that an interrupted write left behind
Unknown == None

NoCall == [op |-> "none", file |-> EmptyStr, data |-> EmptyStr, result |-> "ok",
           warned |-> FALSE, opens |-> 0, fault |-> "none"]

(***************************************************************************)
(* LogWriter.__init__ with keyword arguments kwargs, the clock reading t1   *)
(* at the first datetime.now() and t2 at the second; mkfault: os.makedirs  *)
(* is refused by the operating system.                                     *)
(***************************************************************************)
\* what __init__ does once run_name is resolved to rn
InitWith(fs, cfg, rn, mkfault) ==
    LET ld == PathJoin(cfg["log_dir"], rn)
        mk == IF ~Exists(fs, ld)
              THEN IF mkfault THEN [raised |-> TRUE, fs |-> fs] ELSE Makedirs(fs, ld)
              ELSE [raised |-> FALSE, fs |-> fs]
    IN  [config |-> cfg, run_name |-> rn, log_dir |-> ld, fs |-> mk.fs,
         raised |-> mk.raised, run_log |-> <<>>]

\* __init__ always naming the run after the clock
LogWriter_init_auto(fs, kwargs, t1, t2, mkfault) ==
    InitWith(fs, recursive_merge_dicts(default_config, kwargs),
             <<StrfDate(t1), SEP, StrfTime(t2), SEP>>, mkfault)

\* __init__ naming the run after the time of day alone
LogWriter_init_time_only(fs, kwargs, t1, t2, mkfault) ==
    LET cfg == recursive_merge_dicts(default_config, kwargs)
    IN  InitWith(fs, cfg, Or(cfg["run_name"], <<StrfTime(t2), SEP>>), mkfault)

LogWriter_init(fs, kwargs, t1, t2, mkfault) ==
    LET cfg == recursive_merge_dicts(default_config, kwargs)
        date == StrfDate(t1)
        time == StrfTime(t2)
        rn == Or(cfg["run_name"], <<date, SEP, time, SEP>>)
        ld == PathJoin(cfg["log_dir"], rn)
        mk == IF ~Exists(fs, ld)
              THEN IF mkfault THEN [raised |-> TRUE, fs |-> fs] ELSE Makedirs(fs, ld)
              ELSE [raised |-> FALSE, fs |-> fs]
    IN  [config |-> cfg, run_name |-> rn, log_dir |-> ld, fs |-> mk.fs,
         raised |-> mk.raised, run_log |-> <<>>]

\* what the history holds about a construction
Built(o, t1, t2) ==
    [auto |-> ~Truthy(o.config["run_name"]), base |-> o.config["log_dir"],
     log_dir |-> o.log_dir, date |-> StrfDate(t1), time |-> StrfTime(t2),
     reads |-> <<t1, t2>>, ok |-> ~o.raised]

\* before any instance is constructed
InitNew ==
    /\ pc = "new"
    /\ clock = StartClock
    /\ disk \in DiskInits
    /\ config = default_config
    /\ run_name = None
    /\ log_dir = None
    /\ run_log = <<>>
    /\ calls = <<>>
    /\ sent = [r \in Files(disk) |-> disk[r].data]
    /\ last = NoCall
    /\ built = <<>>
    /\ nops = 0
    /\ faults = 0

\* after LogWriter(kwargs) returned or raised, the clock standing still
Init ==
    \E fs \in DiskInits, kwargs \in KwargsSet :
        LET o == LogWriter_init(fs, kwargs, StartClock, StartClock, FALSE)
        IN  /\ pc = IF o.raised THEN "failed" ELSE "ready"
            /\ clock = StartClock
            /\ disk = o.fs
            /\ config = o.config
            /\ run_name = o.run_name
            /\ log_dir = o.log_dir
            /\ run_log = o.run_log
            /\ calls = <<>>
            /\ sent = [r \in Files(fs) |-> fs[r].data]
            /\ last = [NoCall EXCEPT !.op = "__init__",
                                     !.result = IF o.raised THEN "OSError" ELSE "ok"]
            /\ built = <<Built(o, StartClock, StartClock)>>
            /\ nops = 0
            /\ faults = 0

Constructing ==
    \E kwargs \in KwargsSet, d1 \in 0..MaxDelay, d2 \in 0..MaxDelay,
       mkfault \in (IF faults < MaxFaults THEN BOOLEAN ELSE {FALSE}) :
        LET t1 == clock + d1
            t2 == t1 + d2
            o == LogWriter_init(disk, kwargs, t1, t2, mkfault)
        IN  /\ mkfault => ~Exists(disk, o.log_dir)
            /\ clock' = t2
            /\ config' = o.config
            /\ run_name' = o.run_name
            /\ log_dir' = o.log_dir
            /\ disk' = o.fs
            /\ run_log' = o.run_log
            /\ pc' = IF o.raised THEN "failed" ELSE "ready"
            /\ calls' = <<>>
            /\ sent' = sent
            /\ last' = [NoCall EXCEPT !.op = "__init__",
                                      !.result = IF o.raised THEN "OSError" ELSE "ok"]
            /\ built' = Append(built, Built(o, t1, t2))
            /\ nops' = 0
            /\ faults' = faults + (IF mkfault THEN 1 ELSE 0)

\* the first instance is constructed
Construct == pc = "new" /\ Constructing

\* a further instance is constructed after the previous one, and takes its place
ConstructNext == pc # "new" /\ Len(built) < MaxInstances /\ Constructing

(***************************************************************************)
(* add_scalar(name, value, step): self.run_log[name].append([step, value]) *)
(* on a defaultdict(list); the result is the new run_log.                  *)
(***************************************************************************)
KeyIndex(rl, name) ==
    IF \E i \in 1..Len(rl) : rl[i].name = name
    THEN CHOOSE i \in 1..Len(rl) : rl[i].name = name
    ELSE 0

\* add_scalar keeping one entry per step: a repeated step replaces the entry
add_scalar_dedup(name, value, step) ==
    LET i == KeyIndex(run_log, name)
        old == IF i = 0 THEN <<>> ELSE run_log[i].log
        kept == SelectSeq(old, LAMBDA e : e[1] # step)
        new == [name |-> name, log |-> Append(kept, <<step, value>>)]
    IN  IF i = 0 THEN Append(run_log, new) ELSE [run_log EXCEPT ![i] = new]

\* add_scalar assigning the list instead of appending to it
add_scalar_overwrite(name, value, step) ==
    LET i == KeyIndex(run_log, name)
        new == [name |-> name, log |-> <<<<step, value>>>>]
    IN  IF i = 0 THEN Append(run_log, new) ELSE [run_log EXCEPT ![i] = new]

add_scalar(name, value, step) ==
    LET i == KeyIndex(run_log, name)
        vivified == IF i = 0 THEN Append(run_log, [name |-> name, log |-> <<>>]) ELSE run_log
        j == IF i = 0 THEN Len(vivified) ELSE i
    IN  [vivified EXCEPT ![j].log = Append(@, <<step, value>>)]

AddScalar ==
    /\ pc = "ready"
    /\ nops < MaxOps
    /\ Len(calls) < MaxScalars
    /\ \E name \in Names, value \in Values, step \in Steps :
        /\ run_log' = add_scalar(name, value, step)
        /\ calls' = Append(calls, [name |-> name, value |-> value, step |-> step])
        /\ last' = [NoCall EXCEPT !.op = "add_scalar"]
    /\ nops' = nops + 1
    /\ UNCHANGED <<pc, clock, disk, config, run_name, log_dir, sent, built, faults>>

(***************************************************************************)
(* The writers.  Each returns what the call did: the path and the text it  *)
(* had to write, whether it warned, whether it raised, and the disk it     *)
(* left.                                                                   *)
(***************************************************************************)
\* the JSON value json.dump sees for a run_log
RunLogJson(rl) ==
    JObj([i \in 1..Len(rl) |->
            [key |-> rl[i].name,
             val |-> JList([k \in 1..Len(rl[i].log) |->
                              JList(<<JNum(rl[i].log[k][1]), JNum(rl[i].log[k][2])>>)])]])

\* open(path, "a"): what is written goes behind what the file holds
OpenAppend(fs, path, data, fault) ==
    LET r == Resolve(path)
        old == IF IsFileAt(fs, r) /\ ~fs[r].torn THEN fs[r].data ELSE <<>>
        w == OpenWrite(fs, path, old \o data, fault)
    IN  IF w.raised THEN [w EXCEPT !.fs = fs] ELSE w

\* write_text opening the file in append mode
write_text_append(text, filename, fault) ==
    LET text_path == PathJoin(log_dir, filename)
        w == OpenAppend(disk, text_path, text, fault)
    IN  [path |-> text_path, warned |-> FALSE,
         raised |-> w.raised, opens |-> w.opens, fs |-> w.fs]

write_text(text, filename, fault) ==
    LET text_path == PathJoin(log_dir, filename)
        w == OpenWrite(disk, text_path, text, fault)
    IN  [path |-> text_path, warned |-> FALSE,
         raised |-> w.raised, opens |-> w.opens, fs |-> w.fs]

\* write_json refusing a filename without the .json extension
write_json_strict(dict_to_write, filename, fault) ==
    LET warned == ~EndsWith(filename, JSON_EXT)
        log_path == PathJoin(log_dir, filename)
        w == OpenWrite(disk, log_path, Dumps(dict_to_write), fault)
    IN  IF warned
        THEN [path |-> log_path, warned |-> TRUE, raised |-> TRUE, opens |-> 0, fs |-> disk]
        ELSE [path |-> log_path, warned |-> FALSE,
              raised |-> w.raised, opens |-> w.opens, fs |-> w.fs]

\* write_json trying a second time when the first attempt raised
write_json_retry(dict_to_write, filename, fault) ==
    LET warned == ~EndsWith(filename, JSON_EXT)
        log_path == PathJoin(log_dir, filename)
        data == Dumps(dict_to_write)
        w1 == OpenWrite(disk, log_path, data, fault)
        w2 == OpenWrite(w1.fs, log_path, data, fault)
    IN  IF w1.raised
        THEN [path |-> log_path, warned |-> warned,
              raised |-> w2.raised, opens |-> w1.opens + w2.opens, fs |-> w2.fs]
        ELSE [path |-> log_path, warned |-> warned,
              raised |-> w1.raised, opens |-> w1.opens, fs |-> w1.fs]

write_json(dict_to_write, filename, fault) ==
    LET warned == ~EndsWith(filename, JSON_EXT)
        log_path == PathJoin(log_dir, filename)
        data == Dumps(dict_to_write)
        w == OpenWrite(disk, log_path, data, fault)
    IN  [path |-> log_path, warned |-> warned,
         raised |-> w.raised, opens |-> w.opens, fs |-> w.fs]

write_config(cfg, config_filename, fault) == write_json(cfg, config_filename, fault)

write_log(log_filename, fault) == write_json(RunLogJson(run_log), log_filename, fault)

\* the ways the operating system may fail a write of data
FaultsFor(data) ==
    {"none"} \cup
    (IF faults < MaxFaults
     THEN {"open"} \cup (IF Len(data) > 0 THEN {"write"} ELSE {})
     ELSE {})

\* the chunks of a str as one string
RECURSIVE Concat(_)
Concat(chunks) == IF Len(chunks) = 0 THEN "" ELSE chunks[1] \o Concat(Tail(chunks))

\* where the file called filename in the directory dir lives
Under(dir, filename) == Resolve(dir) \o <<Concat(filename)>>

\* The call op(..., filename), given data to write, returns or raises with
\* the effect e.  The history keeps the call (last) and what the file of that
\* name under log_dir was to hold (sent).
Returns(op, filename, data, e, fault) ==
    LET r == Under(log_dir, filename)
        injected == fault # "none" /\ ~OpenWrite(disk, e.path, data, "none").raised
    IN  /\ pc = "ready"
        /\ nops < MaxOps
        /\ fault # "none" => injected
        /\ disk' = e.fs
        /\ sent' = IF ~e.raised THEN Put(sent, r, data)
                   ELSE IF fault = "write" THEN Put(sent, r, Unknown)
                   ELSE sent
        /\ last' = [op |-> op, file |-> filename, data |-> data,
                    result |-> IF e.raised THEN "OSError" ELSE "ok",
                    warned |-> e.warned, opens |-> e.opens, fault |-> fault]
        /\ faults' = faults + (IF injected THEN 1 ELSE 0)
        /\ nops' = nops + 1
        /\ UNCHANGED <<pc, clock, config, run_name, log_dir, run_log, calls, built>>

WriteConfig ==
    \E cfg \in Configs, f \in {CONFIG_FILENAME, <<"notes", ".txt">>} :
        \E fault \in FaultsFor(Dumps(cfg)) :
            Returns("write_config", f, Dumps(cfg), write_config(cfg, f, fault), fault)

WriteLog ==
    \E f \in Filenames :
        \E fault \in FaultsFor(Dumps(RunLogJson(run_log))) :
            Returns("write_log", f, Dumps(RunLogJson(run_log)), write_log(f, fault), fault)

WriteText ==
    \E text \in Texts, f \in Filenames :
        \E fault \in FaultsFor(text) :
            Returns("write_text", f, text, write_text(text, f, fault), fault)

WriteJson ==
    \E d \in JsonValues, f \in Filenames :
        \E fault \in FaultsFor(Dumps(d)) :
            Returns("write_json", f, Dumps(d), write_json(d, f, fault), fault)

\* close() dropping the scalars it holds
Close_clears ==
    /\ pc = "ready"
    /\ run_log' = <<>>
    /\ last' = [NoCall EXCEPT !.op = "close"]
    /\ UNCHANGED <<pc, clock, disk, config, run_name, log_dir, calls,
                   sent, built, nops, faults>>

\* close(): pass
Close ==
    /\ pc = "ready"
    /\ last' = [NoCall EXCEPT !.op = "close"]
    /\ UNCHANGED <<pc, clock, disk, config, run_name, log_dir, run_log, calls,
                   sent, built, nops, faults>>

(***************************************************************************)
(* Specifications.  Spec: one instance, from the return of its constructor *)
(* on, and the calls made on it.  SpecTwo: the constructor, run for        *)
(* instances made one after the other while the clock advances.            *)
(***************************************************************************)
Next ==
    \/ AddScalar
    \/ WriteConfig
    \/ WriteLog
    \/ WriteText
    \/ WriteJson
    \/ Close

Spec == Init /\ [][Next]_vars

NextTwo ==
    \/ Construct
    \/ ConstructNext

SpecTwo == InitNew /\ [][NextTwo]_vars

(***************************************************************************)
(* Properties.                                                             *)
(***************************************************************************)
\* the calls among cs made with name, in call order, as [step, value] pairs
PairsOf(cs, name) ==
    LET mine == SelectSeq(cs, LAMBDA c : c.name = name)
    IN  JList([k \in 1..Len(mine) |-> JList(<<JNum(mine[k].step), JNum(mine[k].value)>>)])

NamesOf(cs) == {cs[i].name : i \in 1..Len(cs)}

\* on the disk fs, the file called filename in dir holds, as JSON, exactly the calls cs
HoldsCallsIn(fs, dir, cs, filename) ==
    LET r == Under(dir, filename)
        j == Loads(fs[r].data)
    IN  /\ IsFileAt(fs, r) /\ ~fs[r].torn
        /\ j.t = "obj"
        /\ Len(j.v) = Cardinality(NamesOf(cs))
        /\ {j.v[i].key : i \in 1..Len(j.v)} = NamesOf(cs)
        /\ \A i \in 1..Len(j.v) : j.v[i].val = PairsOf(cs, j.v[i].key)

HoldsCalls(filename) == HoldsCallsIn(disk, log_dir, calls, filename)

\* C1: after any sequence of add_scalar calls, a write_log(f) that returns
\* leaves file f under log_dir holding a JSON mapping whose keys are exactly
\* the names passed to add_scalar and whose entry for each name is the list of
\* the [step, value] pairs of that name's calls in call order, nothing
\* reordered, nothing dropped; with no add_scalar call the mapping is empty.
C1_WriteLogHoldsCalls ==
    (last.op = "write_log" /\ last.result = "ok") => HoldsCalls(last.file)

\* C1 witness: write_log returned after two calls for one name, the later call
\* with the smaller step
C1_Witness ==
    /\ last.op = "write_log" /\ last.result = "ok"
    /\ Len(calls) = 2
    /\ calls[1].name = calls[2].name
    /\ calls[1].step > calls[2].step
    /\ HoldsCalls(last.file)

LogOf(rl, name) == IF KeyIndex(rl, name) = 0 THEN <<>> ELSE rl[KeyIndex(rl, name)].log

IsPrefix(a, b) == Len(a) <= Len(b) /\ SubSeq(b, 1, Len(a)) = a

C2_Step ==
    /\ \A name \in Names : IsPrefix(LogOf(run_log, name), LogOf(run_log', name))
    /\ last'.op = "add_scalar" =>
         \E name \in Names :
            /\ Len(LogOf(run_log', name)) = Len(LogOf(run_log, name)) + 1
            /\ \A other \in Names \ {name} : LogOf(run_log', other) = LogOf(run_log, other)
    /\ last'.op # "add_scalar" =>
         \A name \in Names : LogOf(run_log', name) = LogOf(run_log, name)

\* C2: every call on the instance leaves, for every name, the earlier
\* run_log[name] as a prefix of the later one; add_scalar(name, ...) extends
\* run_log[name] by exactly one entry and leaves the other names' lists as they
\* were; the writers and close leave every list as it was.
C2_RunLogOnlyGrows == [][C2_Step]_vars

\* C2 witness: write_log returned and the store still holds two entries of one name
C2_Witness ==
    /\ last.op = "write_log" /\ last.result = "ok"
    /\ \E i \in 1..Len(run_log) : Len(run_log[i].log) = 2

Writers == {"write_config", "write_log", "write_text", "write_json"}
JsonWriters == {"write_config", "write_log", "write_json"}

\* C3 (as claimed): whenever a write operation of the instance is called,
\* log_dir is an existing directory.
C3_LogDirIsDirectory == last.op \in Writers => IsDir(disk, log_dir)

\* C6: every file holds exactly what the last write call to its name that
\* ran to its end was given (the text itself for write_text, the
\* serialization of the value for the JSON writers), whatever the file held
\* before and however long that was; a file no call wrote to holds what it
\* held before the instance was made.  (A write the operating system
\* interrupted leaves its file out of the statement.)
C6_FilesHoldLastWrite ==
    /\ Files(disk) = DOMAIN sent
    /\ \A r \in DOMAIN sent :
          IF disk[r].torn THEN sent[r] = Unknown
          ELSE sent[r] # Unknown /\ disk[r].data = sent[r]

\* C6 witness: write_text returned on a file that held a longer text before
C6_Witness ==
    /\ last.op = "write_text" /\ last.result = "ok"
    /\ last.file = <<"notes", ".txt">>
    /\ log_dir = <<"logs", SEP, "run">>
    /\ disk[<<"logs", "run", "notes.txt">>] = FileEntry(<<"hello", " ", "world">>)
    /\ nops = 1

C7_Step ==
    last'.op \in JsonWriters =>
        /\ last'.warned = ~EndsWith(last'.file, JSON_EXT)
        /\ (last'.fault = "none" /\ IsDir(disk, log_dir)) => last'.result = "ok"
        /\ last'.result = "ok" =>
             /\ IsFileAt(disk', Under(log_dir, last'.file))
             /\ ~disk'[Under(log_dir, last'.file)].torn
             /\ disk'[Under(log_dir, last'.file)].data = last'.data
        /\ UNCHANGED <<config, run_name, log_dir, run_log>>

\* C7: write_json, write_config and write_log warn exactly when the filename
\* does not end in ".json"; with or without the warning the call returns
\* unless the operating system fails it, the file then holds the
\* serialization of the value, and the instance is left as it was.
C7_WarnsAndWrites == [][C7_Step]_vars

\* C7 witness: write_log to notes.txt warned, returned, and the file holds the log
C7_Witness ==
    /\ last.op = "write_log" /\ last.result = "ok" /\ last.warned
    /\ last.file = <<"notes", ".txt">>
    /\ Len(calls) > 0
    /\ HoldsCalls(last.file)

\* C8: close can be called in every state of a constructed instance, any
\* number of times; it returns, and it changes nothing: not the instance, not
\* the disk, and nothing the other calls depend on.
C8_CloseIsNoOp ==
    /\ [](pc = "ready" => ENABLED Close)
    /\ [][last'.op = "close" =>
            /\ last'.result = "ok"
            /\ UNCHANGED <<pc, clock, disk, config, run_name, log_dir, run_log,
                           calls, sent, built, nops, faults>>]_vars

\* C8 witness: close returned after scalars were added and a file was written
C8_Witness ==
    /\ last.op = "close"
    /\ Len(calls) > 0
    /\ \E f \in Filenames : IsFileAt(disk, Under(log_dir, f)) /\ HoldsCalls(f)

C9_Step ==
    /\ (last'.op \in Writers /\ last'.result = "OSError") =>
          /\ last'.opens = 1
          /\ UNCHANGED <<pc, config, run_name, log_dir, run_log>>
    /\ (faults' > 0 /\ last'.op = "write_log" /\ last'.result = "ok") =>
          HoldsCallsIn(disk', log_dir', calls', last'.file)

\* C9: a writer whose open or write fails raises after that one attempt and
\* leaves run_log, run_name, log_dir and config as they were, and a write_log
\* that returns after such a failure still holds every pair added so far.
C9_FailureLeavesState == [][C9_Step]_vars

\* C9 witness: write_log returned with every pair, after an injected failure
C9_Witness ==
    /\ faults > 0
    /\ last.op = "write_log" /\ last.result = "ok"
    /\ Len(calls) > 0
    /\ HoldsCalls(last.file)

\* the construction the current instance came from
Current == built[Len(built)]

\* C4: the constructor sets run_name to the configured run_name when that
\* is a non-empty string and otherwise to "<date>/<time>/", the date
\* (%Y_%m_%d) of its first clock reading and the time (%H_%M_%S) of its second;
\* log_dir is the base log_dir followed by run_name, and the new instance's
\* run_log is empty.
C4_ConstructorResolves ==
    pc = "ready" =>
        LET given == config["run_name"]
            named == given # None /\ Len(given) > 0
        IN  /\ run_name = IF named THEN given
                          ELSE <<StrfDate(Current.reads[1]), SEP,
                                 StrfTime(Current.reads[2]), SEP>>
            /\ Resolve(log_dir) = Resolve(config["log_dir"]) \o Resolve(run_name)
            /\ last.op = "__init__" => run_log = <<>>

\* C4 witness: constructed with the empty string as run_name, the clock
\* advancing between the two reads: the run is named after the clock
C4_Witness ==
    /\ pc = "ready" /\ last.op = "__init__"
    /\ config["run_name"] = EmptyStr
    /\ Current.reads[1] # Current.reads[2]
    /\ run_name = <<Current.date, SEP, Current.time, SEP>>
    /\ IsDir(disk, log_dir)

\* two instances made one after the other, both named after the clock, with
\* the same base log_dir
AutoPair(i, j) ==
    /\ i < j
    /\ built[i].ok /\ built[j].ok
    /\ built[i].auto /\ built[j].auto
    /\ built[i].base = built[j].base

\* C5 (as claimed): two such instances always get distinct log directories.
C5_AlwaysDistinct ==
    \A i, j \in 1..Len(built) : AutoPair(i, j) => built[i].log_dir # built[j].log_dir

DayOf(t) == t \div SecondsPerDay
SecondOf(t) == t % SecondsPerDay

\* C5 (amended): two such instances get distinct log directories exactly when
\* the day of the date reading or the second of the time reading differs
\* between their constructors; when both agree they share one directory.
C5_DistinctUnlessSameSecond ==
    \A i, j \in 1..Len(built) :
        AutoPair(i, j) =>
            (built[i].log_dir # built[j].log_dir
                <=> \/ DayOf(built[i].reads[1]) # DayOf(built[j].reads[1])
                    \/ SecondOf(built[i].reads[2]) # SecondOf(built[j].reads[2]))

\* C5 witness: two such instances, the second made a second later, in two directories
C5_Witness ==
    /\ Len(built) = 2
    /\ AutoPair(1, 2)
    /\ built[2].reads[1] = built[1].reads[2] + 1
    /\ built[1].log_dir # built[2].log_dir

\* C10 (as claimed): the run name "<date>/<time>/" is the date and the time
\* of one clock reading between the constructor's first and last.
C10_OneInstant ==
    (pc = "ready" /\ Current.auto) =>
        \E t \in Current.reads[1]..Current.reads[2] :
            run_name = <<StrfDate(t), SEP, StrfTime(t), SEP>>

====
